---------------------------- MODULE Spec2Model ----------------------------
(***************************************************************************)
(* Ledger consistency engine, recurring schedule advancer and budget       *)
(* listing of myduit.                                                      *)
(*                                                                         *)
(* The persisted entities (Account, Transaction, RecurringTransaction,     *)
(* Budget) are functions from ids to rows.  Every server action is one     *)
(* action of a sequential specification: Spec (ledger), SpecRecurring,     *)
(* SpecCalendar and SpecBatch (schedule advancer), SpecAmounts (amount     *)
(* validation), SpecBudgets.  SpecConc, SpecOverlap and SpecAccounts split *)
(* addTransaction, processRecurringTransactions and addAccount into their *)
(* statements, for calls that overlap.                                     *)
(* Dates are calendar days written as the integer YYYYMMDD, so that the    *)
(* order of dates is the order of the integers.                            *)
(***************************************************************************)
EXTENDS Integers, Sequences, FiniteSets, TLC

(* ------------------------------ bounds -------------------------------- *)
MaxAccounts == 1       \* accounts ever created
MaxTx == 2             \* transactions ever created
MaxRecurring == 1      \* recurring definitions ever created
MaxAmount == 1         \* largest amount submitted
MaxTick == 1           \* days the clock advances
NumCalls == 2          \* overlapping addTransaction calls (SpecConc)
NumDue == 2            \* definitions one pass finds (SpecBatch)
NumPasses == 2         \* overlapping processing passes (SpecOverlap)
MaxBudgets == 1
MaxOverdue == 3
MaxLimit == 2
MaxWindow == 2
MaxClock == 7        \* budgets ever created

(* ----------------------------- constants ------------------------------ *)
NULL == 0                                  \* null / undefined / no session
Users == {1, 2}
Callers == Users \cup {NULL}
TransactionType == {"INCOME", "EXPENSE", "TRANSFER"}
Frequency == {"DAILY", "WEEKLY", "MONTHLY", "YEARLY"}
Amounts == (0 - 1) .. MaxAmount            \* -1 is an amount the schema rejects
AccountIds == 1 .. MaxAccounts             \* an id names no row before it is
TxIds == 1 .. MaxTx                        \* created and after it is deleted
RecIds == 1 .. MaxRecurring
Categories == {"Food", "Rent"}

(* ------------------------- date-fns arithmetic ------------------------- *)
MkDate(y, m, d) == y * 10000 + m * 100 + d
YearOf(date) == date \div 10000
MonthOf(date) == (date \div 100) % 100
DayOf(date) == date % 100

IsLeapYear(y) == (y % 4 = 0 /\ y % 100 # 0) \/ y % 400 = 0

DaysInMonth(y, m) ==
    IF m = 2 THEN (IF IsLeapYear(y) THEN 29 ELSE 28)
    ELSE IF m \in {4, 6, 9, 11} THEN 30 ELSE 31

NextDay(date) ==
    LET y == YearOf(date)
        m == MonthOf(date)
        d == DayOf(date)
    IN  IF d < DaysInMonth(y, m) THEN MkDate(y, m, d + 1)
        ELSE IF m < 12 THEN MkDate(y, m + 1, 1)
        ELSE MkDate(y + 1, 1, 1)

RECURSIVE addDays(_, _)
addDays(date, n) == IF n = 0 THEN date ELSE addDays(NextDay(date), n - 1)

addWeeks(date, n) == addDays(date, 7 * n)

\* faulty variant: a day past the end of the target month runs over into the
\* month after it, as Date.setMonth does
addMonthsOverflow(date, n) ==
    LET months == YearOf(date) * 12 + (MonthOf(date) - 1) + n
    IN  addDays(MkDate(months \div 12, (months % 12) + 1, 1), DayOf(date) - 1)

addMonths(date, n) ==
    LET months == YearOf(date) * 12 + (MonthOf(date) - 1) + n
        y == months \div 12
        m == (months % 12) + 1
        dim == DaysInMonth(y, m)
        d == IF DayOf(date) > dim THEN dim ELSE DayOf(date)
    IN  MkDate(y, m, d)

addYears(date, n) == addMonths(date, 12 * n)

\* faulty variant: a date is after itself
isSameOrAfter(date, dateToCompare) == date >= dateToCompare

isAfter(date, dateToCompare) == date > dateToCompare

\* faulty variant: the schedule stays where it is
nextDateSame(frequency, date) == date

\* the switch on rt.frequency
nextDateOf(frequency, date) ==
    CASE frequency = "DAILY" -> addDays(date, 1)
      [] frequency = "WEEKLY" -> addWeeks(date, 1)
      [] frequency = "MONTHLY" -> addMonths(date, 1)
      [] frequency = "YEARLY" -> addYears(date, 1)
      [] OTHER -> date

Day0 == MkDate(2024, 1, 30)                \* the day the clock starts at
LastDay == addDays(Day0, MaxTick)
RECURSIVE DaysFrom(_, _)
DaysFrom(date, n) == IF n = 0 THEN {date} ELSE {date} \cup DaysFrom(NextDay(date), n - 1)
Days == DaysFrom(Day0, MaxTick)            \* the dates a caller submits

(* ------------------------------- state -------------------------------- *)
VARIABLES
    accounts,       \* id -> [user_id, name, balance, opening]
    transactions,   \* id -> [user_id, account_id, amount, type, date, applied, src]
    recurring,      \* id -> [user_id, account_id, amount, type, frequency, start_date,
                    \*        end_date, next_run_date, last_run_date, is_active, expired]
    nextId,         \* [account, tx, rec]: the id the next created row gets
    now,            \* new Date(), as a day
    calls,          \* the calls in flight, in the specifications of overlapping calls
    last,           \* the last server action: [op, user, res, id, processed]
    budgets,        \* id -> [user_id, category, amount, start_date, end_date]
    returned,       \* the rows the last getBudgets returned
    attempts,       \* identifier -> [count, resetAt, succeeded]
    lastCleanup     \* the time of the last cleanup of attempts

vars ==
    <<accounts, transactions, recurring, nextId, now, calls, last, budgets, returned,
      attempts, lastCleanup>>
db == <<accounts, transactions, recurring, nextId>>

\* a row set in which id is a new row
Put(rows, id, row) == [i \in DOMAIN rows \cup {id} |-> IF i = id THEN row ELSE rows[i]]
\* a row set without id
Drop(rows, id) == [i \in DOMAIN rows \ {id} |-> rows[i]]

Result(op, user, res, id, processed) ==
    [op |-> op, user |-> user, res |-> res, id |-> id, processed |-> processed]

(* ------------------------------ sessions ------------------------------ *)
\* requireAuth(): the owner id, or the call throws Unauthorized
requireAuth(caller) == caller # NULL
\* getAuthUserId(): the owner id or null
getAuthUserId(caller) == caller

(* ----------------------------- validation ----------------------------- *)
(* A JavaScript number, as far as the amount checks can tell numbers apart: *)
(* NaN, an infinity, or a finite integer sign * (hi * Limb + lo).  Two      *)
(* limbs hold the 53 bits of the safe integers.                            *)
Limb == 134217728                          \* 2^27
Finite(sign, hi, lo) == [kind |-> "finite", sign |-> sign, hi |-> hi, lo |-> lo]
NaN == [kind |-> "NaN", sign |-> 1, hi |-> 0, lo |-> 0]
Infinity(sign) == [kind |-> "Infinity", sign |-> sign, hi |-> 0, lo |-> 0]
Zero == Finite(1, 0, 0)
\* Number.MAX_SAFE_INTEGER = 2^53 - 1 = (2^26 - 1) * 2^27 + (2^27 - 1)
MAX_SAFE_INTEGER == Finite(1, 67108863, Limb - 1)

\* n + 1 and n - 1 for a finite n > 0
plusOne(n) == IF n.lo = Limb - 1 THEN Finite(n.sign, n.hi + 1, 0)
              ELSE Finite(n.sign, n.hi, n.lo + 1)
minusOne(n) == IF n.lo = 0 THEN Finite(n.sign, n.hi - 1, Limb - 1)
               ELSE Finite(n.sign, n.hi, n.lo - 1)

\* the number an amount of the small range is
toNumber(amount) == IF amount < 0 THEN Finite(0 - 1, 0, 0 - amount) ELSE Finite(1, 0, amount)

\* a < b on the magnitudes, and a < b as JavaScript compares numbers
magnitudeLess(a, b) ==
    IF a.kind = "Infinity" THEN FALSE
    ELSE IF b.kind = "Infinity" THEN TRUE
    ELSE a.hi < b.hi \/ (a.hi = b.hi /\ a.lo < b.lo)
numberLess(a, b) ==
    IF a.kind = "NaN" \/ b.kind = "NaN" THEN FALSE
    ELSE IF a.sign # b.sign THEN a.sign < b.sign
    ELSE IF a.sign = 1 THEN magnitudeLess(a, b) ELSE magnitudeLess(b, a)

\* faulty variant: the amount has no upper limit
amountSchemaNoCeiling(n) == n.kind # "NaN" /\ ~numberLess(n, Zero) /\ n.kind = "finite"

\* z.number().min(0).max(Number.MAX_SAFE_INTEGER).finite()
amountSchema(n) ==
    /\ n.kind # "NaN"
    /\ ~numberLess(n, Zero)
    /\ ~numberLess(MAX_SAFE_INTEGER, n)
    /\ n.kind = "finite"

\* transactionSchema, the amount and type fields
transactionSchema(amount, type) == amountSchema(toNumber(amount)) /\ type \in TransactionType

\* transactionSchema.partial(): only the fields that are given are checked
updateSchema(data) ==
    /\ ("amount" \in DOMAIN data => data.amount >= 0)
    /\ ("type" \in DOMAIN data => data.type \in TransactionType)


\* accountSchema: the name survives trimming, the normalised type is in the
\* allow-list, the balance is not negative
AccountNames == {"Cash", "cash", " "}
AccountTypes == {" Cash ", "gold"}
normaliseType(type) ==
    CASE type = " Cash " -> "cash"
      [] OTHER -> type
accountSchema(name, type, balance) ==
    /\ name # " "
    /\ normaliseType(type) \in {"bank", "cash", "e-wallet", "credit_card", "other"}
    /\ balance >= 0

\* mode: "insensitive"
lower(name) ==
    CASE name = "Cash" -> "cash"
      [] OTHER -> name

(* ------------------------- the store's own rules ----------------------- *)
\* Transaction.account_id and RecurringTransaction.account_id are relations
\* to Account: a row cannot name an account that does not exist
relationHolds(accs, account_id) == account_id = NULL \/ account_id \in DOMAIN accs

\* faulty variant: the writes of a callback that throws are kept
prismaTransactionNoRollback(before, after) == after

\* prisma.$transaction: the callback's writes are kept when it returns and
\* dropped when it throws
prismaTransaction(before, after) == IF after.threw THEN before ELSE after

Store(threw, accs, txs, recs, ids) ==
    [threw |-> threw, accounts |-> accs, transactions |-> txs, recurring |-> recs,
     nextId |-> ids]
Current == Store(FALSE, accounts, transactions, recurring, nextId)
Commit(store) ==
    /\ accounts' = store.accounts
    /\ transactions' = store.transactions
    /\ recurring' = store.recurring
    /\ nextId' = store.nextId

(* ------------------------------- ledger -------------------------------- *)
\* faulty variant: the sign of the effect does not follow the type
balanceChangeUnsigned(type, amount) == amount

\* the signed effect of a transaction on its account
balanceChange(type, amount) == IF type = "INCOME" THEN amount ELSE 0 - amount

\* balance: { increment: change }
increment(accs, id, change) == [accs EXCEPT ![id].balance = @ + change]

\* tx.account.findFirst({ where: { id, user_id } })
findAccount(accs, id, userId) ==
    IF id \in DOMAIN accs /\ accs[id].user_id = userId THEN id ELSE NULL

\* the callback addTransaction hands to prisma.$transaction
addTransactionBody(userId, amount, type, accountId, date, fault) ==
    LET id == nextId.tx
        effect == accountId # NULL /\ type # "TRANSFER"
        row == [user_id |-> userId, account_id |-> accountId, amount |-> amount,
                type |-> type, date |-> date,
                applied |-> IF effect THEN balanceChange(type, amount) ELSE 0,
                src |-> NULL]
        created == Put(transactions, id, row)
        ids == [nextId EXCEPT !.tx = @ + 1]
    IN  IF ~relationHolds(accounts, accountId)
        THEN Store(TRUE, accounts, transactions, recurring, nextId)
        ELSE IF ~effect
        THEN Store(FALSE, accounts, created, recurring, ids)
        ELSE IF findAccount(accounts, accountId, userId) = NULL \/ fault
        THEN Store(TRUE, accounts, created, recurring, ids)
        ELSE Store(FALSE, increment(accounts, accountId, balanceChange(type, amount)),
                   created, recurring, ids)

addTransaction(caller, amount, type, account_id, date, fault) ==
    /\ nextId.tx <= MaxTx
    /\ UNCHANGED <<now, attempts, lastCleanup, budgets, returned, calls>>
    /\ IF ~requireAuth(caller)
       THEN /\ UNCHANGED db
            /\ last' = Result("addTransaction", caller, "throw", NULL, 0)
       ELSE IF ~transactionSchema(amount, type)
       THEN /\ UNCHANGED db
            /\ last' = Result("addTransaction", caller, "error", NULL, 0)
       ELSE LET after == addTransactionBody(caller, amount, type, account_id, date, fault)
            IN  /\ Commit(prismaTransaction(Current, after))
                /\ last' = Result("addTransaction", caller,
                                  IF after.threw THEN "error" ELSE "ok", nextId.tx, 0)

\* the callback deleteTransaction hands to prisma.$transaction
deleteTransactionBody(userId, id) ==
    IF id \notin DOMAIN transactions \/ transactions[id].user_id # userId
    THEN Store(TRUE, accounts, transactions, recurring, nextId)
    ELSE LET transaction == transactions[id]
             effect == transaction.account_id # NULL /\ transaction.type # "TRANSFER"
             change == IF transaction.type = "INCOME" THEN 0 - transaction.amount
                       ELSE transaction.amount
         IN  IF effect /\ transaction.account_id \notin DOMAIN accounts
             THEN Store(TRUE, accounts, transactions, recurring, nextId)
             ELSE Store(FALSE,
                        IF effect THEN increment(accounts, transaction.account_id, change)
                        ELSE accounts,
                        Drop(transactions, id), recurring, nextId)

deleteTransaction(caller, id) ==
    /\ UNCHANGED <<now, attempts, lastCleanup, budgets, returned, calls>>
    /\ IF ~requireAuth(caller)
       THEN /\ UNCHANGED db
            /\ last' = Result("deleteTransaction", caller, "throw", id, 0)
       ELSE LET after == deleteTransactionBody(caller, id)
            IN  /\ Commit(prismaTransaction(Current, after))
                /\ last' = Result("deleteTransaction", caller,
                                  IF after.threw THEN "throw" ELSE "ok", id, 0)

\* prisma.transaction.update({ where: { id, user_id }, data })
applyUpdate(row, data) ==
    [f \in DOMAIN row |-> IF f \in DOMAIN data THEN data[f] ELSE row[f]]

\* faulty variant: the update also moves the balance by the difference of
\* the effects
updateTransactionReconciling(caller, id, data) ==
    /\ UNCHANGED <<now, attempts, lastCleanup, budgets, returned, calls, recurring, nextId>>
    /\ requireAuth(caller) /\ updateSchema(data)
    /\ id \in DOMAIN transactions /\ transactions[id].user_id = caller
    /\ LET old == transactions[id]
           new == applyUpdate(old, data)
           effect(t) == IF t.type = "TRANSFER" THEN 0 ELSE balanceChange(t.type, t.amount)
       IN  /\ transactions' = [transactions EXCEPT ![id] = new]
           /\ accounts' = IF old.account_id \in DOMAIN accounts
                           THEN increment(accounts, old.account_id, effect(new) - effect(old))
                           ELSE accounts
    /\ last' = Result("updateTransaction", caller, "ok", id, 0)

updateTransaction(caller, id, data) ==
    /\ UNCHANGED <<now, attempts, lastCleanup, budgets, returned, calls, accounts, recurring, nextId>>
    /\ IF ~requireAuth(caller)
       THEN /\ UNCHANGED transactions
            /\ last' = Result("updateTransaction", caller, "throw", id, 0)
       ELSE IF ~updateSchema(data)
            \/ id \notin DOMAIN transactions
            \/ transactions[id].user_id # caller
       THEN /\ UNCHANGED transactions
            /\ last' = Result("updateTransaction", caller, "error", id, 0)
       ELSE /\ transactions' = [transactions EXCEPT ![id] = applyUpdate(@, data)]
            /\ last' = Result("updateTransaction", caller, "ok", id, 0)

\* the partial data a caller sends: no field, a new amount or a new type
UpdateData ==
    {[f \in {} |-> NULL]}
    \cup {[amount |-> a] : a \in Amounts}
    \cup {[type |-> t] : t \in TransactionType}

(* ------------------------------ accounts ------------------------------- *)
\* findFirst({ where: { user_id, name: { equals: name, mode: "insensitive" } } })
existingAccount(userId, name) ==
    \E a \in DOMAIN accounts :
        accounts[a].user_id = userId /\ lower(accounts[a].name) = lower(name)

addAccount(caller, name, type, balance) ==
    /\ nextId.account <= MaxAccounts
    /\ UNCHANGED <<now, attempts, lastCleanup, budgets, returned, calls, transactions, recurring>>
    /\ IF getAuthUserId(caller) = NULL
          \/ ~accountSchema(name, type, balance)
          \/ existingAccount(caller, name)
       THEN /\ UNCHANGED <<accounts, nextId>>
            /\ last' = Result("addAccount", caller, "error", NULL, 0)
       ELSE /\ accounts' = Put(accounts, nextId.account,
                               [user_id |-> caller, name |-> name,
                                balance |-> balance, opening |-> balance])
            /\ nextId' = [nextId EXCEPT !.account = @ + 1]
            /\ last' = Result("addAccount", caller, "ok", nextId.account, 0)

\* what the store does with the rows that still name a deleted account: the
\* relation's referential action is one of these
ReferentialActions == {"Restrict", "SetNull", "Cascade"}

refersTo(rows, id) == {r \in DOMAIN rows : rows[r].account_id = id}
setNull(rows, id) ==
    [r \in DOMAIN rows |-> IF rows[r].account_id = id
                           THEN [rows[r] EXCEPT !.account_id = NULL] ELSE rows[r]]
cascade(rows, id) == [r \in DOMAIN rows \ refersTo(rows, id) |-> rows[r]]

deleteAccount(caller, id, onDelete) ==
    /\ UNCHANGED <<now, attempts, lastCleanup, budgets, returned, calls, nextId>>
    /\ IF getAuthUserId(caller) = NULL
          \* hasTransactions
          \/ (\E t \in DOMAIN transactions :
                 transactions[t].account_id = id /\ transactions[t].user_id = caller)
          \* prisma.account.delete({ where: { id, user_id } }) finds no row
          \/ findAccount(accounts, id, caller) = NULL
          \/ (onDelete = "Restrict"
              /\ refersTo(transactions, id) \cup refersTo(recurring, id) # {})
       THEN /\ UNCHANGED <<accounts, transactions, recurring>>
            /\ last' = Result("deleteAccount", caller, "error", id, 0)
       ELSE /\ accounts' = Drop(accounts, id)
            /\ transactions' = IF onDelete = "Cascade" THEN cascade(transactions, id)
                               ELSE setNull(transactions, id)
            /\ recurring' = IF onDelete = "Cascade" THEN cascade(recurring, id)
                            ELSE setNull(recurring, id)
            /\ last' = Result("deleteAccount", caller, "ok", id, 0)

(* ------------------------- recurring definitions ----------------------- *)
addRecurringTransaction(caller, amount, type, category, frequency, start_date, end_date, account_id) ==
    /\ nextId.rec <= MaxRecurring
    /\ UNCHANGED <<now, attempts, lastCleanup, budgets, returned, calls, accounts, transactions>>
    /\ IF getAuthUserId(caller) = NULL \/ ~relationHolds(accounts, account_id)
       THEN /\ UNCHANGED <<recurring, nextId>>
            /\ last' = Result("addRecurringTransaction", caller, "error", NULL, 0)
       ELSE /\ recurring' = Put(recurring, nextId.rec,
                                [user_id |-> caller, account_id |-> account_id,
                                 amount |-> amount, type |-> type, category |-> category,
                                 frequency |-> frequency, start_date |-> start_date,
                                 end_date |-> end_date, next_run_date |-> start_date,
                                 last_run_date |-> NULL, is_active |-> TRUE,
                                 expired |-> FALSE])
            /\ nextId' = [nextId EXCEPT !.rec = @ + 1]
            /\ last' = Result("addRecurringTransaction", caller, "ok", nextId.rec, 0)

\* an optional field of data is the empty set (undefined) or one value; an
\* undefined field leaves the column as it is
Optional(S) == {{}} \cup {{v} : v \in S}
orKeep(value, old) == IF value = {} THEN old ELSE CHOOSE v \in value : TRUE

updateRecurringTransaction(caller, id, amount, end_date, is_active) ==
    /\ UNCHANGED <<now, attempts, lastCleanup, budgets, returned, calls, accounts, transactions, nextId>>
    /\ IF getAuthUserId(caller) = NULL
          \/ id \notin DOMAIN recurring
          \/ recurring[id].user_id # caller
       THEN /\ UNCHANGED recurring
            /\ last' = Result("updateRecurringTransaction", caller, "error", id, 0)
       ELSE /\ recurring' = [recurring EXCEPT
                                ![id].amount = amount,
                                ![id].end_date = orKeep(end_date, @),
                                ![id].is_active = orKeep(is_active, @)]
            /\ last' = Result("updateRecurringTransaction", caller, "ok", id, 0)

deleteRecurringTransaction(caller, id) ==
    /\ UNCHANGED <<now, attempts, lastCleanup, budgets, returned, calls, accounts, transactions, nextId>>
    /\ IF getAuthUserId(caller) = NULL
          \/ id \notin DOMAIN recurring
          \/ recurring[id].user_id # caller
       THEN /\ UNCHANGED recurring
            /\ last' = Result("deleteRecurringTransaction", caller, "error", id, 0)
       ELSE /\ recurring' = Drop(recurring, id)
            /\ last' = Result("deleteRecurringTransaction", caller, "ok", id, 0)

\* getRecurringTransactions: the definitions of the caller; an empty list
\* without a session
getRecurringTransactions(caller) ==
    /\ UNCHANGED <<accounts, transactions, recurring, nextId, now, attempts, lastCleanup, calls, budgets>>
    /\ returned' = IF getAuthUserId(caller) = NULL THEN [r \in {} |-> NULL]
                   ELSE [r \in {x \in DOMAIN recurring : recurring[x].user_id = caller}
                            |-> recurring[r]]
    /\ last' = Result("getRecurringTransactions", caller, "ok", NULL, 0)

(* -------------------------- schedule advancer -------------------------- *)
\* findMany({ where: { user_id, is_active: true, next_run_date: { lte: now } } })
\* faulty variant: the query does not filter by owner
dueOfAnyone(recs, userId, time) ==
    {r \in DOMAIN recs : recs[r].is_active /\ recs[r].next_run_date <= time}

\* prisma.recurringTransaction.findMany({ where: { user_id, is_active: true,
\* next_run_date: { lte: now } } })
dueTransactions(recs, userId, time) ==
    {r \in DOMAIN recs : /\ recs[r].user_id = userId
                         /\ recs[r].is_active
                         /\ recs[r].next_run_date <= time}

\* isActive after the advance
stillActive(end_date, nextDate) == ~(end_date # NULL /\ isAfter(nextDate, end_date))

\* faulty variant: the callback removes the definition it has materialized
processOneAndRemove(store, id, rt, fault) ==
    LET row == [user_id |-> rt.user_id, account_id |-> rt.account_id,
                amount |-> rt.amount, type |-> rt.type, category |-> rt.category,
                date |-> rt.next_run_date, applied |-> 0, src |-> id]
    IN  Store(fault, store.accounts,
              IF fault THEN store.transactions
              ELSE Put(store.transactions, store.nextId.tx, row),
              IF fault THEN store.recurring ELSE Drop(store.recurring, id),
              IF fault THEN store.nextId ELSE [store.nextId EXCEPT !.tx = @ + 1])

\* faulty variant: the transaction row is created outside the $transaction
\* and stays when the schedule update fails
processOneKeepingRow(store, id, rt, fault) ==
    LET row == [user_id |-> rt.user_id, account_id |-> rt.account_id,
                amount |-> rt.amount, type |-> rt.type, category |-> rt.category,
                date |-> rt.next_run_date, applied |-> 0, src |-> id]
        created == Put(store.transactions, store.nextId.tx, row)
        ids == [store.nextId EXCEPT !.tx = @ + 1]
        nextDate == nextDateOf(rt.frequency, rt.next_run_date)
    IN  IF fault \/ id \notin DOMAIN store.recurring
        THEN Store(FALSE, store.accounts, created, store.recurring, ids)
        ELSE Store(FALSE, store.accounts, created,
                   [store.recurring EXCEPT
                       ![id].last_run_date = rt.next_run_date,
                       ![id].next_run_date = nextDate,
                       ![id].is_active = stillActive(rt.end_date, nextDate),
                       ![id].expired = @ \/ ~stillActive(rt.end_date, nextDate)],
                   ids)

\* the callback of the loop body: one transaction row, one schedule update
processOne(store, id, rt, fault) ==
    LET row == [user_id |-> rt.user_id, account_id |-> rt.account_id,
                amount |-> rt.amount, type |-> rt.type, category |-> rt.category,
                date |-> rt.next_run_date, applied |-> 0, src |-> id]
        created == Put(store.transactions, store.nextId.tx, row)
        ids == [store.nextId EXCEPT !.tx = @ + 1]
        nextDate == nextDateOf(rt.frequency, rt.next_run_date)
        isActive == stillActive(rt.end_date, nextDate)
    IN  IF ~relationHolds(store.accounts, rt.account_id)
        THEN Store(TRUE, store.accounts, store.transactions, store.recurring, store.nextId)
        ELSE IF fault \/ id \notin DOMAIN store.recurring
        THEN Store(TRUE, store.accounts, created, store.recurring, ids)
        ELSE Store(FALSE, store.accounts, created,
                   [store.recurring EXCEPT
                       ![id].last_run_date = rt.next_run_date,
                       ![id].next_run_date = nextDate,
                       ![id].is_active = isActive,
                       ![id].expired = @ \/ ~isActive],
                   ids)

Min(S) == CHOOSE x \in S : \A y \in S : x <= y

\* for (const rt of dueTransactions): every definition in its own
\* $transaction; a throw leaves the loop and the function
RECURSIVE processLoop(_, _, _, _, _)
processLoop(rest, found, store, count, failAt) ==
    IF rest = {} THEN [store |-> store, processedCount |-> count, threw |-> FALSE]
    ELSE LET id == Min(rest)
             after == processOne(store, id, found[id], id = failAt)
         IN  IF after.threw
             THEN [store |-> prismaTransaction(store, after), processedCount |-> count,
                   threw |-> TRUE]
             ELSE processLoop(rest \ {id}, found, prismaTransaction(store, after),
                              count + 1, failAt)

\* the pass, in a store with room for cap transaction rows
processRecurringTransactionsWithin(cap, caller, failAt) ==
    /\ UNCHANGED <<now, attempts, lastCleanup, budgets, returned, calls>>
    /\ IF getAuthUserId(caller) = NULL
       THEN /\ UNCHANGED db
            /\ last' = Result("processRecurringTransactions", caller, "error", NULL, 0)
       ELSE LET due == dueTransactions(recurring, caller, now)
                run == processLoop(due, recurring, Current, 0, failAt)
            IN  /\ failAt \in due \cup {NULL}
                /\ nextId.tx + Cardinality(due) <= cap + 1
                /\ Commit(run.store)
                /\ last' = Result("processRecurringTransactions", caller,
                                  IF run.threw THEN "throw" ELSE "ok",
                                  NULL, run.processedCount)

processRecurringTransactions(caller, failAt) ==
    processRecurringTransactionsWithin(MaxTx, caller, failAt)

(* -------------------------------- time --------------------------------- *)
Tick ==
    /\ now < LastDay
    /\ now' = NextDay(now)
    /\ UNCHANGED <<accounts, transactions, recurring, nextId, attempts, lastCleanup, calls,
                   budgets, returned, last>>

(* ------------------------ sequential specification --------------------- *)
NoRows == [i \in {} |-> NULL]

Init ==
    /\ accounts = NoRows
    /\ transactions = NoRows
    /\ recurring = NoRows
    /\ nextId = [account |-> 1, tx |-> 1, rec |-> 1]
    /\ now = Day0
    /\ attempts = NoRows
    /\ lastCleanup = 0
    /\ calls = NoRows
    /\ last = Result("none", NULL, "ok", NULL, 0)
    /\ budgets = NoRows
    /\ returned = NoRows

\* the ledger operations
LedgerNext ==
    \/ \E caller \in Users, amount \in Amounts, type \in TransactionType,
          account_id \in AccountIds \cup {NULL}, fault \in BOOLEAN :
          addTransaction(caller, amount, type, account_id, now, fault)
    \/ \E caller \in Users, id \in TxIds : deleteTransaction(caller, id)
    \/ \E caller \in Users, id \in TxIds, data \in UpdateData :
          updateTransaction(caller, id, data)
    \/ \E caller \in Users, name \in AccountNames, type \in AccountTypes,
          balance \in Amounts : addAccount(caller, name, type, balance)
    \/ \E caller \in Users, id \in AccountIds, onDelete \in ReferentialActions :
          deleteAccount(caller, id, onDelete)

\* the operations on recurring definitions, over the accounts of the owners
RecAmounts == 1 .. MaxAmount
RecurringNext ==
    \/ \E caller \in Users, amount \in RecAmounts, type \in TransactionType,
          frequency \in Frequency, start_date \in Days, end_date \in Days \cup {NULL},
          account_id \in AccountIds \cup {NULL} :
          addRecurringTransaction(caller, amount, type, "Food", frequency, start_date,
                                  end_date, account_id)
    \/ \E caller \in Users, id \in RecIds, amount \in RecAmounts,
          end_date \in Optional(Days), is_active \in Optional(BOOLEAN) :
          updateRecurringTransaction(caller, id, amount, end_date, is_active)
    \/ \E caller \in Users, id \in RecIds : deleteRecurringTransaction(caller, id)
    \/ \E caller \in Users, failAt \in RecIds \cup {NULL} :
          processRecurringTransactions(caller, failAt)
    \/ \E caller \in Users : addAccount(caller, "Cash", " Cash ", MaxAmount)
    \/ Tick

SpecRecurring == Init /\ [][RecurringNext]_vars

Next == LedgerNext

Spec == Init /\ [][Next]_vars

(* ------------------ overlapping addTransaction calls ------------------- *)
(* Each call runs the statements of its $transaction callback one at a     *)
(* time: create, findFirst, update, commit.  The rows a callback writes    *)
(* are seen by the other calls when it commits; the row an UPDATE has      *)
(* written is locked by the store until that commit.                       *)
CallIds == 1 .. NumCalls
TheAccount == 1
CallInputs ==
    [pc : {"start"}, user_id : Users, amount : 1 .. MaxAmount, type : TransactionType,
     read : {0}]

\* the account row findFirst returned, of which the call keeps the balance
foundAccount(c) == [balance |-> calls[c].read]

\* the row lock an uncommitted UPDATE of the account holds
locked(c) == \E d \in CallIds \ {c} : calls[d].pc = "updated"

\* faulty variant: the balance is written back from the row findFirst returned
writtenBalance(account, stored, change) == account.balance + change

\* balance: { increment: balanceChange }, against the stored row
incrementedBalance(account, stored, change) == stored.balance + change

\* tx.transaction.create
ConcCreate(c) ==
    /\ calls[c].pc = "start"
    /\ calls' = [calls EXCEPT ![c].pc = "created"]
    /\ UNCHANGED <<accounts, transactions, recurring, nextId, now, attempts, lastCleanup, budgets, returned, last>>

\* tx.account.findFirst, and the throw that rolls the call back
ConcFind(c) ==
    /\ calls[c].pc = "created"
    /\ calls[c].type # "TRANSFER"
    /\ LET id == findAccount(accounts, TheAccount, calls[c].user_id)
       IN  calls' = IF id = NULL THEN [calls EXCEPT ![c].pc = "failed"]
                    ELSE [calls EXCEPT ![c].pc = "found",
                                       ![c].read = accounts[id].balance]
    /\ UNCHANGED <<accounts, transactions, recurring, nextId, now, attempts, lastCleanup, budgets, returned, last>>

\* tx.account.update
ConcUpdate(c) ==
    /\ calls[c].pc = "found"
    /\ ~locked(c)
    /\ accounts' = [accounts EXCEPT ![TheAccount].balance =
                       incrementedBalance(foundAccount(c), accounts[TheAccount],
                                          balanceChange(calls[c].type, calls[c].amount))]
    /\ calls' = [calls EXCEPT ![c].pc = "updated"]
    /\ UNCHANGED <<transactions, recurring, nextId, now, attempts, lastCleanup, budgets, returned, last>>

\* the callback returns and the $transaction commits
ConcCommit(c) ==
    /\ \/ calls[c].pc = "updated"
       \/ calls[c].pc = "created" /\ calls[c].type = "TRANSFER"
    /\ transactions' = Put(transactions, nextId.tx,
                           [user_id |-> calls[c].user_id, account_id |-> TheAccount,
                            amount |-> calls[c].amount, type |-> calls[c].type,
                            date |-> now,
                            applied |-> IF calls[c].type = "TRANSFER" THEN 0
                                        ELSE balanceChange(calls[c].type, calls[c].amount),
                            src |-> NULL])
    /\ nextId' = [nextId EXCEPT !.tx = @ + 1]
    /\ calls' = [calls EXCEPT ![c].pc = "done"]
    /\ UNCHANGED <<accounts, recurring, now, attempts, lastCleanup, budgets, returned, last>>

\* the state after an addAccount by user 1, with the calls about to start
InitConc ==
    /\ \E balance \in 0 .. MaxAmount :
          accounts = Put(NoRows, TheAccount,
                         [user_id |-> 1, name |-> "Cash", balance |-> balance,
                          opening |-> balance])
    /\ transactions = NoRows
    /\ recurring = NoRows
    /\ nextId = [account |-> 2, tx |-> 1, rec |-> 1]
    /\ now = Day0
    /\ attempts = NoRows
    /\ lastCleanup = 0
    /\ calls \in [CallIds -> CallInputs]
    /\ last = Result("addAccount", 1, "ok", TheAccount, 0)
    /\ budgets = NoRows
    /\ returned = NoRows

NextConc ==
    \E c \in CallIds : ConcCreate(c) \/ ConcFind(c) \/ ConcUpdate(c) \/ ConcCommit(c)

SpecConc == InitConc /\ [][NextConc]_vars

(* ------------------------- passes over a calendar ---------------------- *)
\* start dates at the ends of months and around 29 February, and a clock at
\* which every one of them is due
CalendarDays ==
    {20230131, 20230228, 20230330, 20230531, 20231231, 20240131, 20240228,
     20240229, 20240331, 20241130, 20241231}
CalendarNow == MkDate(2026, 12, 31)

InitCalendar ==
    /\ accounts = NoRows
    /\ transactions = NoRows
    /\ recurring = NoRows
    /\ nextId = [account |-> 1, tx |-> 1, rec |-> 1]
    /\ now = CalendarNow
    /\ attempts = NoRows
    /\ lastCleanup = 0
    /\ calls = NoRows
    /\ last = Result("none", NULL, "ok", NULL, 0)
    /\ budgets = NoRows
    /\ returned = NoRows

NextCalendar ==
    \/ \E caller \in Users, amount \in Amounts, frequency \in Frequency,
          start_date \in CalendarDays :
          addRecurringTransaction(caller, amount, "EXPENSE", "Food", frequency,
                                  start_date, NULL, NULL)
    \/ \E caller \in Users : processRecurringTransactions(caller, NULL)

SpecCalendar == InitCalendar /\ [][NextCalendar]_vars

(* ------------------- a pass over several definitions ------------------- *)
\* the rows addRecurringTransaction creates for the owners, before any pass
DefinitionRows ==
    {[user_id |-> u, account_id |-> NULL, amount |-> a, type |-> "EXPENSE",
      category |-> "Food", frequency |-> f, start_date |-> d, end_date |-> e, next_run_date |-> d,
      last_run_date |-> NULL, is_active |-> TRUE, expired |-> FALSE] :
        u \in Users, a \in RecAmounts, f \in Frequency, d \in Days,
        e \in Days \cup {NULL}}

DueIds == 1 .. NumDue

\* the state after NumDue addRecurringTransaction calls
InitBatch ==
    /\ accounts = NoRows
    /\ transactions = NoRows
    /\ recurring \in [DueIds -> DefinitionRows]
    /\ nextId = [account |-> 1, tx |-> 1, rec |-> NumDue + 1]
    /\ now = Day0
    /\ attempts = NoRows
    /\ lastCleanup = 0
    /\ calls = NoRows
    /\ last = Result("addRecurringTransaction", recurring[NumDue].user_id, "ok", NumDue, 0)
    /\ budgets = NoRows
    /\ returned = NoRows

NextBatch ==
    \/ \E caller \in Users, failAt \in DueIds \cup {NULL} :
          processRecurringTransactions(caller, failAt)
    \/ Tick

SpecBatch == InitBatch /\ [][NextBatch]_vars

(* --------------------- overlapping processing passes ------------------- *)
(* The dashboard calls processRecurringTransactions on every mount, so two *)
(* passes of one owner can run at once.  A pass is its findMany, then one  *)
(* $transaction per definition it found, then its return.                  *)
PassIds == 1 .. NumPasses
PassInputs == [pc : {"start"}, user_id : Users, found : {NoRows}, processedCount : {0}]

\* const dueTransactions = await prisma.recurringTransaction.findMany(...)
PassFind(p) ==
    /\ calls[p].pc = "start"
    /\ LET due == dueTransactions(recurring, calls[p].user_id, now)
       IN  calls' = [calls EXCEPT ![p].pc = IF due = {} THEN "done" ELSE "loop",
                                  ![p].found = [r \in due |-> recurring[r]]]
    /\ UNCHANGED <<accounts, transactions, recurring, nextId, now, attempts, lastCleanup, budgets, returned, last>>

\* one turn of the loop: the $transaction of the next definition the pass
\* found, with the row as findMany returned it
PassProcess(p) ==
    /\ calls[p].pc = "loop"
    /\ DOMAIN calls[p].found # {}
    /\ nextId.tx <= MaxTx
    /\ LET id == Min(DOMAIN calls[p].found)
           after == processOne(Current, id, calls[p].found[id], FALSE)
       IN  /\ Commit(prismaTransaction(Current, after))
           /\ calls' = [calls EXCEPT
                           ![p].pc = IF after.threw THEN "thrown" ELSE "loop",
                           ![p].found = Drop(@, id),
                           ![p].processedCount = IF after.threw THEN @ ELSE @ + 1]
    /\ UNCHANGED <<now, attempts, lastCleanup, budgets, returned, last>>

\* return { success: true, processed: processedCount }
PassReturn(p) ==
    /\ calls[p].pc = "loop"
    /\ DOMAIN calls[p].found = {}
    /\ calls' = [calls EXCEPT ![p].pc = "done"]
    /\ last' = Result("processRecurringTransactions", calls[p].user_id, "ok", NULL,
                      calls[p].processedCount)
    /\ UNCHANGED <<accounts, transactions, recurring, nextId, now, attempts, lastCleanup, budgets, returned>>

\* the state after the addRecurringTransaction calls, with the passes about
\* to start
InitOverlap ==
    /\ accounts = NoRows
    /\ transactions = NoRows
    /\ recurring \in [RecIds -> DefinitionRows]
    /\ nextId = [account |-> 1, tx |-> 1, rec |-> MaxRecurring + 1]
    /\ now = Day0
    /\ attempts = NoRows
    /\ lastCleanup = 0
    /\ calls \in [PassIds -> PassInputs]
    /\ last = Result("addRecurringTransaction", recurring[MaxRecurring].user_id, "ok",
                     MaxRecurring, 0)
    /\ budgets = NoRows
    /\ returned = NoRows

NextOverlap ==
    \/ \E p \in PassIds : PassFind(p) \/ PassProcess(p) \/ PassReturn(p)
    \/ Tick

SpecOverlap == InitOverlap /\ [][NextOverlap]_vars

(* --------------------- overlapping addAccount calls -------------------- *)
(* addAccount is a findFirst and then a create, each its own statement of  *)
(* the store with nothing that joins them.                                 *)
AccountCallInputs ==
    [pc : {"start"}, user_id : Users, name : {"Cash", "cash"}, balance : 0 .. MaxAmount]

\* what the store itself enforces on Account(user_id, name): nothing, or a
\* unique index on the exact pair
UniqueRules == {"none", "exact"}
uniqueViolation(rule, userId, name) ==
    /\ rule = "exact"
    /\ \E a \in DOMAIN accounts : accounts[a].user_id = userId /\ accounts[a].name = name

\* const existingAccount = await prisma.account.findFirst(...)
AccountFind(c) ==
    /\ calls[c].pc = "start"
    /\ calls' = [calls EXCEPT ![c].pc =
                    IF existingAccount(calls[c].user_id, calls[c].name)
                    THEN "rejected" ELSE "checked"]
    /\ UNCHANGED <<accounts, transactions, recurring, nextId, now, attempts, lastCleanup, budgets, returned, last>>

\* const account = await prisma.account.create(...)
AccountCreate(c, rule) ==
    /\ calls[c].pc = "checked"
    /\ IF uniqueViolation(rule, calls[c].user_id, calls[c].name)
       THEN /\ calls' = [calls EXCEPT ![c].pc = "rejected"]
            /\ UNCHANGED <<accounts, nextId>>
       ELSE /\ accounts' = Put(accounts, nextId.account,
                               [user_id |-> calls[c].user_id, name |-> calls[c].name,
                                balance |-> calls[c].balance,
                                opening |-> calls[c].balance])
            /\ nextId' = [nextId EXCEPT !.account = @ + 1]
            /\ calls' = [calls EXCEPT ![c].pc = "created"]
    /\ UNCHANGED <<transactions, recurring, now, attempts, lastCleanup, budgets, returned, last>>

InitAccounts ==
    /\ accounts = NoRows
    /\ transactions = NoRows
    /\ recurring = NoRows
    /\ nextId = [account |-> 1, tx |-> 1, rec |-> 1]
    /\ now = Day0
    /\ attempts = NoRows
    /\ lastCleanup = 0
    /\ calls \in [CallIds -> AccountCallInputs]
    /\ last = Result("none", NULL, "ok", NULL, 0)
    /\ budgets = NoRows
    /\ returned = NoRows

NextAccounts ==
    \E c \in CallIds : AccountFind(c) \/ \E rule \in UniqueRules : AccountCreate(c, rule)

SpecAccounts == InitAccounts /\ [][NextAccounts]_vars

(* ---------------------- amounts at the boundaries ---------------------- *)
\* the amounts callers submit: around zero, around the ceiling, not finite
BoundaryNumbers ==
    {Zero, toNumber(1), toNumber(0 - 1), minusOne(MAX_SAFE_INTEGER), MAX_SAFE_INTEGER,
     plusOne(MAX_SAFE_INTEGER), NaN, Infinity(1), Infinity(0 - 1)}
SubmitInputs == [pc : {"start"}, user_id : Users, amount : BoundaryNumbers, id : {NULL}]

\* addTransaction of the call c: the caller has a session, the data names no
\* account and has a valid type, the amount is any number
addTransactionNoAccount(c) ==
    /\ calls[c].pc = "start"
    /\ nextId.tx <= MaxTx
    /\ UNCHANGED <<now, attempts, lastCleanup, budgets, returned, accounts, recurring>>
    /\ IF ~amountSchema(calls[c].amount)
       THEN /\ UNCHANGED <<transactions, nextId>>
            /\ calls' = [calls EXCEPT ![c].pc = "error"]
            /\ last' = Result("addTransaction", calls[c].user_id, "error", NULL, 0)
       ELSE /\ transactions' = Put(transactions, nextId.tx,
                                   [user_id |-> calls[c].user_id, account_id |-> NULL,
                                    amount |-> calls[c].amount, type |-> "INCOME",
                                    date |-> now, applied |-> 0, src |-> NULL])
            /\ nextId' = [nextId EXCEPT !.tx = @ + 1]
            /\ calls' = [calls EXCEPT ![c].pc = "ok", ![c].id = nextId.tx]
            /\ last' = Result("addTransaction", calls[c].user_id, "ok", nextId.tx, 0)

InitAmounts ==
    /\ accounts = NoRows
    /\ transactions = NoRows
    /\ recurring = NoRows
    /\ nextId = [account |-> 1, tx |-> 1, rec |-> 1]
    /\ now = Day0
    /\ attempts = NoRows
    /\ lastCleanup = 0
    /\ calls \in [CallIds -> SubmitInputs]
    /\ last = Result("none", NULL, "ok", NULL, 0)
    /\ budgets = NoRows
    /\ returned = NoRows

NextAmounts == \E c \in CallIds : addTransactionNoAccount(c)

SpecAmounts == InitAmounts /\ [][NextAmounts]_vars

(* ------------------------------- budgets ------------------------------- *)

\* budgetSchema and the checks after it: a positive amount, start_date not
\* after end_date
budgetSchema(amount, start_date, end_date) == amount > 0 /\ start_date <= end_date

addBudget(caller, category, amount, start_date, end_date) ==
    /\ Cardinality(DOMAIN budgets) < MaxBudgets
    /\ UNCHANGED <<accounts, transactions, recurring, nextId, now, attempts, lastCleanup, calls, returned>>
    /\ IF caller = NULL \/ ~budgetSchema(amount, start_date, end_date)
       THEN /\ UNCHANGED budgets
            /\ last' = Result("addBudget", caller, "error", NULL, 0)
       ELSE LET id == Cardinality(DOMAIN budgets) + 1
            IN  /\ budgets' = Put(budgets, id,
                                  [user_id |-> caller, category |-> category,
                                   amount |-> amount, start_date |-> start_date,
                                   end_date |-> end_date])
                /\ last' = Result("addBudget", caller, "ok", id, 0)

\* faulty variant: the where clause leaves the type out
anyTypeInBudget(t, userId, budget) ==
    /\ t.user_id = userId
    /\ t.category = budget.category
    /\ t.date >= budget.start_date /\ t.date <= budget.end_date

\* where: { user_id, type: EXPENSE, category, date: { gte, lte } }
expenseInBudget(t, userId, budget) ==
    /\ t.user_id = userId
    /\ t.type = "EXPENSE"
    /\ t.category = budget.category
    /\ t.date >= budget.start_date /\ t.date <= budget.end_date

\* prisma.transaction.aggregate({ _sum: { amount: true }, where }): the sum
\* of the rows the where clause selects, null when it selects none
RECURSIVE sumOfAmounts(_, _)
sumOfAmounts(txs, ids) ==
    IF ids = {} THEN 0
    ELSE LET i == CHOOSE x \in ids : TRUE
         IN  txs[i].amount + sumOfAmounts(txs, ids \ {i})
aggregateSum(txs, userId, budget) ==
    LET selected == {i \in DOMAIN txs : expenseInBudget(txs[i], userId, budget)}
    IN  IF selected = {} THEN NULL ELSE sumOfAmounts(txs, selected)

\* result._sum.amount || 0
orZero(sum) == IF sum = NULL \/ sum = 0 THEN 0 ELSE sum

\* faulty variant: the listing writes the computed spent back into the budget
getBudgetsStoringSpent(caller) ==
    /\ caller # NULL
    /\ UNCHANGED <<accounts, transactions, recurring, nextId, now, attempts, lastCleanup, calls>>
    /\ returned' =
          [b \in {x \in DOMAIN budgets : budgets[x].user_id = caller} |->
              [budget |-> budgets[b],
               spent |-> orZero(aggregateSum(transactions, caller, budgets[b]))]]
    /\ budgets' =
          [b \in DOMAIN budgets |->
              IF budgets[b].user_id = caller
              THEN [budgets[b] EXCEPT !.amount =
                       @ - orZero(aggregateSum(transactions, caller, budgets[b]))]
              ELSE budgets[b]]
    /\ last' = Result("getBudgets", caller, "ok", NULL, 0)

getBudgets(caller) ==
    /\ UNCHANGED <<accounts, transactions, recurring, nextId, now, attempts, lastCleanup, calls, budgets>>
    /\ IF caller = NULL
       THEN /\ UNCHANGED returned
            /\ last' = Result("getBudgets", caller, "throw", NULL, 0)
       ELSE /\ returned' =
                  [b \in {x \in DOMAIN budgets : budgets[x].user_id = caller} |->
                      [budget |-> budgets[b],
                       spent |-> orZero(aggregateSum(transactions, caller, budgets[b]))]]
            /\ last' = Result("getBudgets", caller, "ok", NULL, 0)

deleteBudget(caller, id) ==
    /\ UNCHANGED <<accounts, transactions, recurring, nextId, now, attempts, lastCleanup, calls, returned>>
    /\ IF caller = NULL \/ id \notin DOMAIN budgets \/ budgets[id].user_id # caller
       THEN /\ UNCHANGED budgets
            /\ last' = Result("deleteBudget", caller, "error", id, 0)
       ELSE /\ budgets' = Drop(budgets, id)
            /\ last' = Result("deleteBudget", caller, "ok", id, 0)

\* the transactions addTransaction calls of the owners have left, with
\* their categories
CategorisedRows ==
    {[user_id |-> u, account_id |-> NULL, amount |-> a, type |-> ty, date |-> d,
      category |-> c, applied |-> 0, src |-> NULL] :
        u \in Users, a \in RecAmounts, ty \in TransactionType, d \in Days,
        c \in Categories}

InitBudgets ==
    /\ accounts = NoRows
    /\ transactions \in [TxIds -> CategorisedRows]
    /\ recurring = NoRows
    /\ nextId = [account |-> 1, tx |-> MaxTx + 1, rec |-> 1]
    /\ now = Day0
    /\ attempts = NoRows
    /\ lastCleanup = 0
    /\ calls = NoRows
    /\ last = Result("addTransaction", transactions[MaxTx].user_id, "ok", MaxTx, 0)
    /\ budgets = NoRows
    /\ returned = NoRows

NextBudgets ==
    \/ \E caller \in Users, category \in Categories, amount \in 0 .. MaxAmount,
          start_date \in Days, end_date \in Days :
          addBudget(caller, category, amount, start_date, end_date)
    \/ \E caller \in Users : getBudgets(caller)

SpecBudgets == InitBudgets /\ [][NextBudgets]_vars

(* ------------------------ calls without a session --------------------- *)
\* a table that is empty or holds the one row
NoneOrOne(rows) == {NoRows} \cup {Put(NoRows, 1, row) : row \in rows}

\* a store the owners have filled, on which every server action is then
\* called without a session
InitSessions ==
    /\ accounts \in NoneOrOne({[user_id |-> u, name |-> "Cash", balance |-> b,
                                 opening |-> b] : u \in Users, b \in 0 .. MaxAmount})
    /\ transactions \in NoneOrOne({[user_id |-> u, account_id |-> NULL,
                                     amount |-> MaxAmount, type |-> ty, date |-> Day0,
                                     applied |-> 0, src |-> NULL] :
                                        u \in Users, ty \in TransactionType})
    /\ recurring \in NoneOrOne({r \in DefinitionRows :
                                    r.frequency = "DAILY" /\ r.end_date = NULL})
    /\ budgets \in NoneOrOne({[user_id |-> u, category |-> "Food", amount |-> MaxAmount,
                                start_date |-> Day0, end_date |-> Day0] : u \in Users})
    /\ nextId = [account |-> Cardinality(DOMAIN accounts) + 1,
                 tx |-> Cardinality(DOMAIN transactions) + 1,
                 rec |-> Cardinality(DOMAIN recurring) + 1]
    /\ now = Day0
    /\ attempts = NoRows
    /\ lastCleanup = 0
    /\ calls = NoRows
    /\ last = Result("none", NULL, "ok", NULL, 0)
    /\ returned = NoRows

NextSessions ==
    \/ \E amount \in Amounts, type \in TransactionType,
          account_id \in AccountIds \cup {NULL} :
          addTransaction(NULL, amount, type, account_id, now, FALSE)
    \/ \E id \in TxIds : deleteTransaction(NULL, id)
    \/ \E id \in TxIds, data \in UpdateData : updateTransaction(NULL, id, data)
    \/ \E name \in AccountNames, type \in AccountTypes, balance \in Amounts :
          addAccount(NULL, name, type, balance)
    \/ \E id \in AccountIds, onDelete \in ReferentialActions :
          deleteAccount(NULL, id, onDelete)
    \/ \E amount \in Amounts, type \in TransactionType, frequency \in Frequency,
          start_date \in Days, account_id \in AccountIds \cup {NULL} :
          addRecurringTransaction(NULL, amount, type, "Food", frequency, start_date,
                                  NULL, account_id)
    \/ \E id \in RecIds, amount \in Amounts, is_active \in Optional(BOOLEAN) :
          updateRecurringTransaction(NULL, id, amount, {}, is_active)
    \/ \E id \in RecIds : deleteRecurringTransaction(NULL, id)
    \/ getRecurringTransactions(NULL)
    \/ processRecurringTransactions(NULL, NULL)
    \/ \E category \in Categories, amount \in 0 .. MaxAmount :
          addBudget(NULL, category, amount, Day0, Day0)
    \/ \E id \in 1 .. MaxBudgets : deleteBudget(NULL, id)
    \/ getBudgets(NULL)

SpecSessions == InitSessions /\ [][NextSessions]_vars

(* ----------------- overlapping deleteTransaction calls ---------------- *)
\* Calls of deleteTransaction that overlap, statement by statement. The
\* writes of a call are kept with the call until its $transaction commits;
\* an uncommitted UPDATE or DELETE holds the lock of its row.
DeleteInputs ==
    [pc : {"start"}, user_id : Users, id : TxIds, account : {NULL}, change : {0},
     res : {"none"}]

\* the rows addTransaction leaves: a row of an account belongs to the owner
\* of the account
LedgerRows ==
    {r \in {[user_id |-> u, account_id |-> a, amount |-> n, type |-> ty, date |-> Day0,
             applied |-> IF a = NULL \/ ty = "TRANSFER" THEN 0 ELSE balanceChange(ty, n),
             src |-> NULL] :
                u \in Users, a \in {TheAccount, NULL}, n \in 1 .. MaxAmount,
                ty \in TransactionType} :
        r.account_id = TheAccount => r.user_id = 1}

RECURSIVE appliedSum(_, _)
appliedSum(txs, ids) ==
    IF ids = {} THEN 0
    ELSE LET i == CHOOSE x \in ids : TRUE
         IN  txs[i].applied + appliedSum(txs, ids \ {i})

\* faulty variant: deleting a row that is gone is no error
deleteIfPresent(rows, id) == [threw |-> FALSE, rows |-> Drop(rows, id)]

\* tx.transaction.delete({ where: { id } }): rejects when no row has the id
deleteUnique(rows, id) == [threw |-> id \notin DOMAIN rows, rows |-> Drop(rows, id)]

accountLocked(c, a) ==
    \E d \in CallIds \ {c} : calls[d].pc \in {"updated", "deleted"} /\ calls[d].account = a
rowLocked(c, id) ==
    \E d \in CallIds \ {c} : calls[d].pc = "deleted" /\ calls[d].id = id

\* tx.transaction.findUnique and the ownership test
DelFind(c) ==
    /\ calls[c].pc = "start"
    /\ LET id == calls[c].id
       IN  IF id \notin DOMAIN transactions \/ transactions[id].user_id # calls[c].user_id
           THEN calls' = [calls EXCEPT ![c].pc = "done", ![c].res = "throw"]
           ELSE LET transaction == transactions[id]
                    effect == transaction.account_id # NULL /\ transaction.type # "TRANSFER"
                IN  calls' = [calls EXCEPT
                                 ![c].pc = "found",
                                 ![c].account = IF effect THEN transaction.account_id
                                                ELSE NULL,
                                 ![c].change = IF ~effect THEN 0
                                               ELSE IF transaction.type = "INCOME"
                                                    THEN 0 - transaction.amount
                                                    ELSE transaction.amount]
    /\ UNCHANGED <<accounts, transactions, recurring, nextId, now, attempts, lastCleanup, budgets, returned, last>>

\* tx.account.update({ where: { id: account_id }, data: { balance: { increment } } })
DelUpdate(c) ==
    /\ calls[c].pc = "found"
    /\ IF calls[c].account = NULL
       THEN calls' = [calls EXCEPT ![c].pc = "updated"]
       ELSE IF calls[c].account \notin DOMAIN accounts
            THEN calls' = [calls EXCEPT ![c].pc = "done", ![c].res = "throw"]
            ELSE /\ ~accountLocked(c, calls[c].account)
                 /\ calls' = [calls EXCEPT ![c].pc = "updated"]
    /\ UNCHANGED <<accounts, transactions, recurring, nextId, now, attempts, lastCleanup, budgets, returned, last>>

\* tx.transaction.delete; when it rejects, the $transaction rolls back
DelDelete(c) ==
    /\ calls[c].pc = "updated"
    /\ ~rowLocked(c, calls[c].id)
    /\ calls' = IF deleteUnique(transactions, calls[c].id).threw
                THEN [calls EXCEPT ![c].pc = "done", ![c].res = "throw"]
                ELSE [calls EXCEPT ![c].pc = "deleted"]
    /\ UNCHANGED <<accounts, transactions, recurring, nextId, now, attempts, lastCleanup, budgets, returned, last>>

\* the callback returns and the $transaction commits
DelCommit(c) ==
    /\ calls[c].pc = "deleted"
    /\ transactions' = deleteUnique(transactions, calls[c].id).rows
    /\ accounts' = IF calls[c].account = NULL THEN accounts
                   ELSE increment(accounts, calls[c].account, calls[c].change)
    /\ calls' = [calls EXCEPT ![c].pc = "done", ![c].res = "ok"]
    /\ UNCHANGED <<recurring, nextId, now, attempts, lastCleanup, budgets, returned, last>>

\* the ledger after an addAccount of user 1 and addTransaction calls of the
\* users, with the deleteTransaction calls about to start
InitDeletes ==
    /\ transactions \in UNION {[S -> LedgerRows] : S \in SUBSET TxIds}
    /\ accounts = Put(NoRows, TheAccount,
                      [user_id |-> 1, name |-> "Cash",
                       balance |-> appliedSum(transactions, DOMAIN transactions),
                       opening |-> 0])
    /\ recurring = NoRows
    /\ nextId = [account |-> 2, tx |-> MaxTx + 1, rec |-> 1]
    /\ now = Day0
    /\ attempts = NoRows
    /\ lastCleanup = 0
    /\ calls \in [CallIds -> DeleteInputs]
    /\ last = Result("addTransaction", 1, "ok", MaxTx, 0)
    /\ budgets = NoRows
    /\ returned = NoRows

NextDeletes ==
    \E c \in CallIds : DelFind(c) \/ DelUpdate(c) \/ DelDelete(c) \/ DelCommit(c)

SpecDeletes == InitDeletes /\ [][NextDeletes]_vars

(* ------------------- due and other definitions ------------------------ *)
\* the definitions addRecurringTransaction and updateRecurringTransaction
\* calls of the users have left: due or pending, active or switched off
MixedRows ==
    {[user_id |-> u, account_id |-> a, amount |-> MaxAmount, type |-> ty,
      category |-> c, frequency |-> "DAILY", start_date |-> d, end_date |-> NULL,
      next_run_date |-> d, last_run_date |-> NULL, is_active |-> act,
      expired |-> FALSE] :
        u \in Users, a \in {TheAccount, NULL}, ty \in {"INCOME", "EXPENSE"},
        c \in Categories, d \in {Day0, NextDay(Day0)}, act \in BOOLEAN}

InitDue ==
    /\ accounts = Put(NoRows, TheAccount,
                      [user_id |-> 1, name |-> "Cash", balance |-> 0, opening |-> 0])
    /\ transactions = NoRows
    /\ recurring \in [DueIds -> MixedRows]
    /\ nextId = [account |-> 2, tx |-> 1, rec |-> NumDue + 1]
    /\ now = Day0
    /\ attempts = NoRows
    /\ lastCleanup = 0
    /\ calls = NoRows
    /\ last = Result("updateRecurringTransaction", recurring[NumDue].user_id, "ok",
                     NumDue, 0)
    /\ budgets = NoRows
    /\ returned = NoRows

NextDue ==
    \/ \E caller \in Users : processRecurringTransactions(caller, NULL)
    \/ Tick

SpecDue == InitDue /\ [][NextDue]_vars

(* ----------------------- overdue definitions --------------------------- *)
\* Definitions that are up to MaxOverdue days behind a clock that stands
\* still, and passes of their owners, with nothing else going on.
OverdueNow == addDays(Day0, MaxOverdue)
OverdueRoom == NumDue * (MaxOverdue + 1)

OverdueRows ==
    {[user_id |-> u, account_id |-> NULL, amount |-> MaxAmount, type |-> "EXPENSE",
      category |-> "Food", frequency |-> f, start_date |-> d, end_date |-> e,
      next_run_date |-> d, last_run_date |-> NULL, is_active |-> TRUE,
      expired |-> FALSE] :
        u \in Users, f \in {"DAILY", "MONTHLY"}, d \in {Day0, OverdueNow},
        e \in {NULL, NextDay(Day0)}}

InitOverdue ==
    /\ accounts = NoRows
    /\ transactions = NoRows
    /\ recurring \in [DueIds -> OverdueRows]
    /\ nextId = [account |-> 1, tx |-> 1, rec |-> NumDue + 1]
    /\ now = OverdueNow
    /\ attempts = NoRows
    /\ lastCleanup = 0
    /\ calls = NoRows
    /\ last = Result("addRecurringTransaction", recurring[NumDue].user_id, "ok", NumDue, 0)
    /\ budgets = NoRows
    /\ returned = NoRows

NextOverdue ==
    \E caller \in Users : processRecurringTransactionsWithin(OverdueRoom, caller, NULL)

\* every owner keeps calling the pass
SpecOverdue ==
    /\ InitOverdue /\ [][NextOverdue]_vars
    /\ \A caller \in Users :
          WF_vars(processRecurringTransactionsWithin(OverdueRoom, caller, NULL))

(* ----------------------------- rate limit ------------------------------ *)
\* The limiter of the sign-in form. Time is counted in minutes from the
\* load of the module; every identifier is checked with one limit and one
\* window, kept in calls.
CLEANUP_INTERVAL == 5
Identifiers == {1, 2}
MaxCount == MaxLimit + 2

\* attempts without the entries whose window is over, once CLEANUP_INTERVAL
\* has passed since the last cleanup
cleanupExpiredEntries(map, cleaned, time) ==
    IF time - cleaned < CLEANUP_INTERVAL
    THEN [attempts |-> map, lastCleanup |-> cleaned]
    ELSE [attempts |-> [k \in {x \in DOMAIN map : ~(map[x].resetAt < time)} |-> map[k]],
          lastCleanup |-> time]

\* faulty variant: the call after the limit-th still passes
overLimitLate(count, limit) == count > limit + 1

\* entry.count > limit
overLimit(count, limit) == count > limit

checkRateLimit(identifier, limit, windowMs) ==
    LET swept == cleanupExpiredEntries(attempts, lastCleanup, now)
        map == swept.attempts
        fresh == identifier \notin DOMAIN map \/ map[identifier].resetAt < now
        count == IF fresh THEN 1 ELSE map[identifier].count + 1
        resetAt == IF fresh THEN now + windowMs ELSE map[identifier].resetAt
        success == fresh \/ ~overLimit(count, limit)
    IN  /\ count <= MaxCount
        /\ attempts' = Put(map, identifier,
                           [count |-> count, resetAt |-> resetAt,
                            succeeded |-> IF fresh THEN 1
                                          ELSE IF success THEN map[identifier].succeeded + 1
                                          ELSE map[identifier].succeeded])
        /\ lastCleanup' = swept.lastCleanup
        /\ returned' = [success |-> success,
                        remaining |-> IF success THEN limit - count ELSE 0,
                        resetAt |-> resetAt,
                        retryAfterMs |-> IF success THEN 0 ELSE resetAt - now]
        /\ last' = Result("checkRateLimit", NULL, IF success THEN "ok" ELSE "error",
                          identifier, 0)
        /\ UNCHANGED <<accounts, transactions, recurring, nextId, now, calls, budgets>>

resetRateLimit(identifier) ==
    /\ attempts' = Drop(attempts, identifier)
    /\ last' = Result("resetRateLimit", NULL, "ok", identifier, 0)
    /\ UNCHANGED <<accounts, transactions, recurring, nextId, now, calls, budgets, returned,
                   lastCleanup>>

\* Date.now() moves on
Advance ==
    /\ now < MaxClock
    /\ now' = now + 1
    /\ UNCHANGED <<accounts, transactions, recurring, nextId, calls, budgets, returned, last,
                   attempts, lastCleanup>>

InitLimiter ==
    /\ accounts = NoRows
    /\ transactions = NoRows
    /\ recurring = NoRows
    /\ nextId = [account |-> 1, tx |-> 1, rec |-> 1]
    /\ now = 0
    /\ attempts = NoRows
    /\ lastCleanup = 0
    /\ calls \in [Identifiers -> [limit : 1 .. MaxLimit, windowMs : 1 .. MaxWindow]]
    /\ last = Result("none", NULL, "ok", NULL, 0)
    /\ budgets = NoRows
    /\ returned = NoRows

NextLimiter ==
    \/ \E identifier \in Identifiers :
          checkRateLimit(identifier, calls[identifier].limit, calls[identifier].windowMs)
    \/ \E identifier \in Identifiers : resetRateLimit(identifier)
    \/ Advance

SpecLimiter == InitLimiter /\ [][NextLimiter]_vars

(* ------------------------ failures of the store ------------------------ *)
(* What each server action returns when a statement of the store rejects   *)
(* inside its try block.  A rejection is an Error of the client with its   *)
(* own message, or a value that is not an Error.                           *)
StoreErrors ==
    {[isError |-> TRUE, message |-> "Unique constraint failed on the fields: (id)"],
     [isError |-> TRUE, message |-> "Cannot reach database server at db:5432"],
     [isError |-> FALSE, message |-> "socket hang up"]}

CatchingActions ==
    {"addTransaction", "updateTransaction", "addAccount", "deleteAccount",
     "addRecurringTransaction", "updateRecurringTransaction",
     "deleteRecurringTransaction", "addBudget", "deleteBudget"}

\* the catch block of the action: the error message it returns
catchBlock(op, error) ==
    CASE op = "addTransaction" ->
            IF error.isError THEN error.message ELSE "Gagal menyimpan transaksi."
      [] op = "updateTransaction" -> "Gagal memperbarui transaksi."
      [] op = "addAccount" ->
            IF error.isError THEN error.message ELSE "Gagal menambah akun."
      [] op = "deleteAccount" -> "Gagal menghapus akun."
      [] op = "addRecurringTransaction" -> "Gagal membuat transaksi berulang."
      [] op = "updateRecurringTransaction" -> "Gagal memperbarui transaksi berulang."
      [] op = "deleteRecurringTransaction" -> "Gagal menghapus transaksi berulang."
      [] op = "addBudget" -> "Gagal membuat anggaran."
      [] op = "deleteBudget" -> "Gagal menghapus anggaran."

FailingCalls ==
    [pc : {"start"}, user_id : Users, op : CatchingActions, thrown : StoreErrors,
     error : {""}]

\* the call c of an action whose store statement rejects: nothing is
\* written, the catch block makes the result
storeRejects(c) ==
    /\ calls[c].pc = "start"
    /\ calls' = [calls EXCEPT ![c].pc = "returned",
                              ![c].error = catchBlock(calls[c].op, calls[c].thrown)]
    /\ last' = Result(calls[c].op, calls[c].user_id, "error", NULL, 0)
    /\ UNCHANGED <<accounts, transactions, recurring, nextId, now, attempts, lastCleanup, budgets, returned>>

InitErrors ==
    /\ accounts = NoRows
    /\ transactions = NoRows
    /\ recurring = NoRows
    /\ nextId = [account |-> 1, tx |-> 1, rec |-> 1]
    /\ now = Day0
    /\ attempts = NoRows
    /\ lastCleanup = 0
    /\ calls \in [CallIds -> FailingCalls]
    /\ last = Result("none", NULL, "ok", NULL, 0)
    /\ budgets = NoRows
    /\ returned = NoRows

NextErrors == \E c \in CallIds : storeRejects(c)

SpecErrors == InitErrors /\ [][NextErrors]_vars

(* ---------------------- properties of the ledger ----------------------- *)
\* the step is a successful call of the server action op
Returned(op) == last'.op = op /\ last'.res = "ok"

\* the effect the ledger is to give a row of the given type and amount
signedAmount(t) ==
    CASE t.type = "INCOME" -> t.amount
      [] t.type = "EXPENSE" -> 0 - t.amount
      [] OTHER -> 0

\* C1: a valid addTransaction that names an account of the caller leaves the
\* balance at old + amount (INCOME), old - amount (EXPENSE), old (TRANSFER)
AddTransactionPost ==
    [][(Returned("addTransaction") /\ nextId'.tx = nextId.tx + 1) =>
          LET t == transactions'[nextId.tx]
              a == t.account_id
          IN  (a # NULL /\ a \in DOMAIN accounts /\ accounts[a].user_id = t.user_id) =>
                 /\ a \in DOMAIN accounts'
                 /\ accounts'[a].balance = accounts[a].balance + signedAmount(t)]_vars

\* C1 witness: an INCOME and an EXPENSE of the owner were booked on an account
AddTransactionBooked ==
    /\ last.op = "addTransaction" /\ last.res = "ok"
    /\ \E a \in DOMAIN accounts, i, j \in DOMAIN transactions :
          /\ transactions[i].account_id = a /\ transactions[j].account_id = a
          /\ transactions[i].type = "INCOME" /\ transactions[j].type = "EXPENSE"
          /\ transactions[i].amount > 0 /\ transactions[j].amount > 0
          /\ transactions[i].user_id = accounts[a].user_id
          /\ accounts[a].balance =
                accounts[a].opening + transactions[i].amount - transactions[j].amount

\* C2: deleteTransaction applies the exact negation of the change that was
\* applied when the transaction was created
DeleteRestoresBalance ==
    [][(Returned("deleteTransaction") /\ last'.id \in DOMAIN transactions
           /\ last'.id \notin DOMAIN transactions') =>
          LET t == transactions[last'.id]
              a == t.account_id
          IN  (t.applied # 0 /\ a \in DOMAIN accounts) =>
                 /\ a \in DOMAIN accounts'
                 /\ accounts'[a].balance = accounts[a].balance - t.applied]_vars

RECURSIVE signedSum(_, _, _)
signedSum(txs, ids, a) ==
    IF ids = {} THEN 0
    ELSE LET i == CHOOSE x \in ids : TRUE
         IN  (IF txs[i].account_id = a THEN signedAmount(txs[i]) ELSE 0)
             + signedSum(txs, ids \ {i}, a)

\* C3: each balance is the opening balance plus the signed sum of the
\* non-TRANSFER transactions that reference the account
BalanceIsSignedSum ==
    \A a \in DOMAIN accounts :
        accounts[a].balance =
            accounts[a].opening + signedSum(transactions, DOMAIN transactions, a)

\* C4: however the statements of the calls interleave, when every call has
\* returned the balance is the initial balance plus the signed amounts of
\* all calls against the account (no update is lost)
RECURSIVE callSum(_)
callSum(cs) ==
    IF cs = {} THEN 0
    ELSE LET c == CHOOSE x \in cs : TRUE
         IN  (IF calls[c].pc = "done" THEN signedAmount(calls[c]) ELSE 0)
             + callSum(cs \ {c})

AllReturned == \A c \in CallIds : calls[c].pc \in {"done", "failed"}

NoLostUpdate ==
    AllReturned =>
        /\ accounts[TheAccount].balance = accounts[TheAccount].opening + callSum(CallIds)
        /\ \A c \in CallIds :
              calls[c].user_id = accounts[TheAccount].user_id => calls[c].pc = "done"

\* C4 witness: all calls were the owner's, all changed the balance, and they
\* overlapped: every call had read the account before the first one wrote it
OverlappingCallsReturned ==
    /\ AllReturned
    /\ \A c \in CallIds :
          /\ calls[c].pc = "done" /\ calls[c].type # "TRANSFER"
          /\ calls[c].read = accounts[TheAccount].opening
    /\ accounts[TheAccount].balance # accounts[TheAccount].opening

\* C5: an addTransaction that fails leaves no transaction row and changes no
\* balance, and the caller gets an error result
FailedAddLeavesNothing ==
    [][(last'.op = "addTransaction" /\ (last' # last \/ nextId' # nextId)) =>
          /\ (last'.res = "ok" <=> DOMAIN transactions' # DOMAIN transactions)
          /\ (last'.res # "ok" =>
                 /\ last'.res = "error"
                 /\ transactions' = transactions
                 /\ accounts' = accounts)]_vars

\* C5 witness: an addTransaction failed inside its atomic unit (it named an
\* account that is not the caller's, or the balance update failed)
AddFailedInUnit ==
    /\ last.op = "addTransaction" /\ last.res = "error" /\ last.id # NULL
    /\ DOMAIN accounts # {}

\* C6: an operation under one owner's session changes no account of another owner
NoForeignAccountChange ==
    [][\A a \in DOMAIN accounts :
          last'.user # accounts[a].user_id =>
             a \in DOMAIN accounts' /\ accounts'[a] = accounts[a]]_vars

(* ------------------ properties of the schedule advancer ---------------- *)
\* the step is a processRecurringTransactions call of an owner
ProcessStep ==
    last'.op = "processRecurringTransactions" /\ (last' # last \/ nextId' # nextId)

\* the transactions the step created, and those it created for definition r
newTransactions == DOMAIN transactions' \ DOMAIN transactions
madeFor(r) == {i \in newTransactions : transactions'[i].src = r}

\* the step materialized or advanced definition r
handled(r) ==
    madeFor(r) # {} \/ (r \in DOMAIN recurring' /\ recurring'[r] # recurring[r])

\* C7: a materialized INCOME or EXPENSE that references an account applies
\* its signed amount to the balance; a TRANSFER leaves it
MaterializedAppliesBalance ==
    [][ProcessStep =>
          \A a \in DOMAIN accounts :
              /\ a \in DOMAIN accounts'
              /\ accounts'[a].balance =
                    accounts[a].balance + signedSum(transactions', newTransactions, a)]_vars

\* C8: a due definition that is handled gets exactly one transaction dated at
\* its old next_run_date, last_run_date = the old next_run_date, next_run_date
\* one frequency unit later, and is_active = FALSE exactly when end_date is
\* set and the new next_run_date is strictly after it
AdvanceOfDueDefinition ==
    [][ProcessStep =>
          /\ \A r \in DOMAIN recurring :
                handled(r) =>
                   LET old == recurring[r]
                       new == recurring'[r]
                   IN  /\ old.user_id = last'.user /\ old.is_active
                       /\ old.next_run_date <= now
                       /\ Cardinality(madeFor(r)) = 1
                       /\ \A i \in madeFor(r) :
                             transactions'[i].date = old.next_run_date
                       /\ new.last_run_date = old.next_run_date
                       /\ new.next_run_date = nextDateOf(old.frequency, old.next_run_date)
                       /\ new.next_run_date > old.next_run_date
                       /\ new.is_active =
                             ~(old.end_date # NULL /\ new.next_run_date > old.end_date)
          /\ Cardinality(newTransactions) = last'.processed
          /\ last'.res = "ok" =>
                \A r \in DOMAIN recurring :
                    (recurring[r].user_id = last'.user /\ recurring[r].is_active
                     /\ recurring[r].next_run_date <= now) => handled(r)]_vars

\* C8 witness: a pass advanced a definition onto its end_date, and the
\* definition is still active
AdvancedOntoEndDate ==
    /\ last.op = "processRecurringTransactions" /\ last.res = "ok" /\ last.processed = 1
    /\ \E r \in DOMAIN recurring :
          /\ recurring[r].last_run_date # NULL
          /\ recurring[r].next_run_date = recurring[r].end_date
          /\ recurring[r].is_active
          /\ \E i \in DOMAIN transactions :
                transactions[i].src = r /\ transactions[i].date = recurring[r].last_run_date

\* C9: the pass that computes a next occurrence after end_date marks the
\* definition inactive, and no later pass makes a transaction for a definition
\* that a pass has marked so
ExpiredIsSkipped ==
    [][ProcessStep =>
          \A r \in DOMAIN recurring :
              /\ (handled(r) /\ recurring[r].end_date # NULL
                  /\ nextDateOf(recurring[r].frequency, recurring[r].next_run_date)
                        > recurring[r].end_date)
                 => (~recurring'[r].is_active /\ recurring'[r].expired)
              /\ recurring[r].expired => ~handled(r)]_vars

\* C10: once a pass has set is_active to FALSE, no transaction is ever
\* materialized for the definition again, whatever is done to it afterwards
ExpiredIsTerminal ==
    [][\A r \in DOMAIN recurring : recurring[r].expired => madeFor(r) = {}]_vars

\* the definitions a pass of the owner is to handle
dueBefore == dueTransactions(recurring, last'.user, now)

\* C11: a failure on one due definition leaves the others to be materialized
\* and advanced, and the pass returns the count of those it processed
FailureDoesNotBlock ==
    [][ProcessStep =>
          /\ Cardinality({r \in dueBefore : ~handled(r)}) <= 1
          /\ last'.res = "ok"
          /\ last'.processed = Cardinality({r \in dueBefore : handled(r)})]_vars

\* C12: with passes that overlap, each occurrence (definition, next_run_date)
\* is materialized at most once
OccurrenceOnce ==
    \A i, j \in DOMAIN transactions :
        (i # j /\ transactions[i].src # NULL /\ transactions[i].src = transactions[j].src)
           => transactions[i].date # transactions[j].date

(* the calendar, counted in days: the number of days before a year, before *)
(* a month of a year, and the ordinal of a date                            *)
daysBeforeYear(y) == 365 * y + ((y - 1) \div 4) - ((y - 1) \div 100) + ((y - 1) \div 400)
leapDay(y) == daysBeforeYear(y + 1) - daysBeforeYear(y) - 365
daysBeforeMonth(y, m) ==
    <<0, 31, 59, 90, 120, 151, 181, 212, 243, 273, 304, 334>>[m]
        + (IF m > 2 THEN leapDay(y) ELSE 0)
dayNumber(date) ==
    daysBeforeYear(YearOf(date)) + daysBeforeMonth(YearOf(date), MonthOf(date)) + DayOf(date)
lengthOfMonth(y, m) ==
    IF m = 12 THEN 31 ELSE daysBeforeMonth(y, m + 1) - daysBeforeMonth(y, m)
monthIndex(date) == YearOf(date) * 12 + MonthOf(date) - 1

\* new is old moved by the given number of calendar months, the day clamped
\* to the length of the month it lands in
movedByMonths(old, new, n) ==
    /\ monthIndex(new) = monthIndex(old) + n
    /\ MonthOf(new) \in 1 .. 12
    /\ LET len == lengthOfMonth(YearOf(new), MonthOf(new))
       IN  DayOf(new) = IF DayOf(old) > len THEN len ELSE DayOf(old)

\* C13: the next occurrence is the old next_run_date plus one day (DAILY),
\* seven days (WEEKLY), one calendar month (MONTHLY) or one calendar year
\* (YEARLY), the day clamped to the end of the target month
NextOccurrenceDate ==
    [][ProcessStep =>
          \A r \in DOMAIN recurring :
              handled(r) =>
                 LET old == recurring[r].next_run_date
                     new == recurring'[r].next_run_date
                     f == recurring[r].frequency
                 IN  /\ f = "DAILY" => dayNumber(new) = dayNumber(old) + 1
                     /\ f = "WEEKLY" => dayNumber(new) = dayNumber(old) + 7
                     /\ f = "MONTHLY" => movedByMonths(old, new, 1)
                     /\ f = "YEARLY" => movedByMonths(old, new, 12)
                     /\ DayOf(new) \in 1 .. lengthOfMonth(YearOf(new), MonthOf(new))
                     /\ (f = "MONTHLY" /\ old = 20230131) => new = 20230228
                     /\ (f = "YEARLY" /\ old = 20240229) => new = 20250228]_vars

\* C13 witness: a MONTHLY definition was advanced from 31 January 2023 to
\* 28 February 2023
ClampedToMonthEnd ==
    \E r \in DOMAIN recurring :
        /\ recurring[r].frequency = "MONTHLY"
        /\ recurring[r].last_run_date = 20230131
        /\ recurring[r].next_run_date = 20230228

\* C14: a definition an addRecurringTransaction call creates has
\* next_run_date = start_date, is_active = TRUE and the caller as its owner,
\* and a processing pass deletes no definition
CreatedActiveNeverDeleted ==
    [][/\ (Returned("addRecurringTransaction") /\ nextId'.rec = nextId.rec + 1) =>
             /\ DOMAIN recurring' = DOMAIN recurring \cup {nextId.rec}
             /\ recurring'[nextId.rec].next_run_date = recurring'[nextId.rec].start_date
             /\ recurring'[nextId.rec].is_active
             /\ recurring'[nextId.rec].user_id = last'.user
             /\ last'.user \in Users
       /\ ProcessStep => DOMAIN recurring' = DOMAIN recurring]_vars

\* C14 witness: a pass materialized the first occurrence of a definition, at
\* its start_date, and set it inactive; the definition is still stored
ExpiredStillStored ==
    /\ last.op = "processRecurringTransactions" /\ last.processed = 1
    /\ \E r \in DOMAIN recurring :
          /\ recurring[r].last_run_date = recurring[r].start_date
          /\ ~recurring[r].is_active
          /\ \E i \in DOMAIN transactions :
                transactions[i].src = r /\ transactions[i].date = recurring[r].start_date

\* C15: no owner has two accounts whose names are equal ignoring case
NoDuplicateNames ==
    \A a, b \in DOMAIN accounts :
        (a # b /\ accounts[a].user_id = accounts[b].user_id)
           => lower(accounts[a].name) # lower(accounts[b].name)

\* C16: deleteAccount of an account of the caller returns an error and
\* changes nothing while a transaction references the account, and removes
\* the account when none does; no transaction names an account that is gone
DeleteAccountGuarded ==
    [][/\ (last'.op = "deleteAccount" /\ last'.id \in DOMAIN accounts
           /\ accounts[last'.id].user_id = last'.user) =>
             IF refersTo(transactions, last'.id) # {}
             THEN /\ last'.res = "error"
                  /\ accounts' = accounts /\ transactions' = transactions
             ELSE last'.res = "ok" /\ last'.id \notin DOMAIN accounts'
       /\ \A t \in DOMAIN transactions' :
             transactions'[t].account_id \in DOMAIN accounts' \cup {NULL}]_vars

\* C17: a server action raises only when its caller has no session; every
\* other failure is returned as a value
ErrorsAreValues == last.res = "throw" => last.user = NULL

\* C18: every persisted transaction has an amount that is not negative
PersistedAmountsValid == \A t \in DOMAIN transactions : transactions[t].amount >= 0

\* the submitted amounts that are finite, not negative and not above 2^53 - 1
acceptedAmounts ==
    {[kind |-> "finite", sign |-> 1, hi |-> 0, lo |-> 0],
     [kind |-> "finite", sign |-> 1, hi |-> 0, lo |-> 1],
     [kind |-> "finite", sign |-> 1, hi |-> 67108863, lo |-> 134217726],
     [kind |-> "finite", sign |-> 1, hi |-> 67108863, lo |-> 134217727]}

\* C19: addTransaction accepts the amounts 0 and 2^53 - 1 and writes them as
\* submitted; it rejects, with an error and no write, a negative amount, the
\* amount 2^53, NaN and the infinities
AmountBoundary ==
    /\ \A c \in DOMAIN calls :
          /\ calls[c].pc = "ok" =>
                /\ calls[c].amount \in acceptedAmounts
                /\ calls[c].id \in DOMAIN transactions
                /\ transactions[calls[c].id].amount = calls[c].amount
          /\ calls[c].pc = "error" =>
                /\ calls[c].amount \notin acceptedAmounts
                /\ calls[c].id = NULL
    /\ Cardinality(DOMAIN transactions) = Cardinality({c \in DOMAIN calls : calls[c].pc = "ok"})

\* C19 witness: the amount 2^53 - 1 was accepted and the amount 2^53 rejected
CeilingAcceptedNextRejected ==
    \E c, d \in DOMAIN calls :
        /\ calls[c].pc = "ok" /\ calls[c].amount.hi = 67108863
        /\ calls[c].amount.lo = 134217727
        /\ calls[d].pc = "error" /\ calls[d].amount.hi = 67108864
        /\ calls[d].amount.kind = "finite"

\* the transactions that count towards budget b of owner u, and their total
countedFor(u, b) ==
    {t \in DOMAIN transactions :
        /\ transactions[t].user_id = u
        /\ transactions[t].type = "EXPENSE"
        /\ transactions[t].category = b.category
        /\ b.start_date <= transactions[t].date
        /\ transactions[t].date <= b.end_date}
RECURSIVE total(_)
total(S) ==
    IF S = {} THEN 0
    ELSE LET t == CHOOSE x \in S : TRUE IN transactions[t].amount + total(S \ {t})

\* C20: getBudgets returns the budgets of the caller, each with spent = the
\* sum of the amounts of the caller's EXPENSE transactions of the budget's
\* category dated within [start_date, end_date]; 0 when there is none
SpentIsExpenseSum ==
    [][(last'.op = "getBudgets" /\ last'.res = "ok") =>
          /\ DOMAIN returned' = {b \in DOMAIN budgets : budgets[b].user_id = last'.user}
          /\ \A b \in DOMAIN returned' :
                /\ returned'[b].budget = budgets[b]
                /\ returned'[b].spent = total(countedFor(last'.user, budgets[b]))
                /\ countedFor(last'.user, budgets[b]) = {} => returned'[b].spent = 0]_vars

\* C20 witness: a returned budget has spent > 0 while an INCOME or TRANSFER
\* of the same owner, category and period is stored
SpentBesideOtherTypes ==
    /\ last.op = "getBudgets"
    /\ \E b \in DOMAIN returned :
          /\ returned[b].spent > 0
          /\ \E t \in DOMAIN transactions :
                /\ transactions[t].type # "EXPENSE"
                /\ transactions[t].user_id = returned[b].budget.user_id
                /\ transactions[t].category = returned[b].budget.category
                /\ transactions[t].date >= returned[b].budget.start_date
                /\ transactions[t].date <= returned[b].budget.end_date

\* C21: getBudgets changes no persisted entity, and a getBudgets that
\* follows a getBudgets of the same caller returns the same rows
GetBudgetsIsPureRead ==
    [][last'.op = "getBudgets" =>
          /\ <<accounts, transactions, recurring, nextId, budgets>>' =
                <<accounts, transactions, recurring, nextId, budgets>>
          /\ (last.op = "getBudgets" /\ last.res = "ok" /\ last'.res = "ok"
               /\ last'.user = last.user) => returned' = returned]_vars

\* C21 witness: a listing returned a budget with its spent, and the budget
\* and all transactions are stored as they were
ListedAndStoreIntact ==
    /\ last.op = "getBudgets" /\ last.res = "ok"
    /\ DOMAIN transactions = TxIds
    /\ \E b \in DOMAIN returned :
          /\ b \in DOMAIN budgets /\ budgets[b] = returned[b].budget
          /\ returned[b].spent = MaxTx * MaxAmount

\* C22: the message an action returns when the store fails is not the text
\* of the store's error
NoInternalErrorText ==
    \A c \in DOMAIN calls :
        calls[c].pc = "returned" =>
           \A e \in StoreErrors : calls[c].error # e.message

\* C23: only addTransaction and deleteTransaction change the balance of an
\* account that exists before and after the step
OnlyAddAndDeleteMoveBalance ==
    [][\A a \in DOMAIN accounts \cap DOMAIN accounts' :
          accounts'[a].balance # accounts[a].balance =>
             last'.op \in {"addTransaction", "deleteTransaction"}]_vars

\* C23 witness: an updateTransaction changed the amount or type of a
\* transaction booked on an account, and the balance is as the booking left it
UpdatedBalanceUntouched ==
    /\ last.op = "updateTransaction" /\ last.res = "ok"
    /\ last.id \in DOMAIN transactions
    /\ LET t == transactions[last.id]
       IN  /\ t.account_id \in DOMAIN accounts
           /\ t.applied # 0
           /\ signedAmount(t) # t.applied
           /\ accounts[t.account_id].balance = accounts[t.account_id].opening + t.applied

DeleteReversesOnce ==
    [][/\ \A c \in CallIds :
             /\ (calls[c].res = "none" /\ calls'[c].res = "throw") =>
                    accounts' = accounts /\ transactions' = transactions
             /\ (/\ calls[c].pc = "start" /\ calls'[c] # calls[c]
                 /\ \/ calls[c].id \notin DOMAIN transactions
                    \/ transactions[calls[c].id].user_id # calls[c].user_id) =>
                    calls'[c].res = "throw"
       /\ \A c, d \in CallIds :
             (calls'[c].res = "ok" /\ calls'[d].res = "ok" /\ calls'[c].id = calls'[d].id) =>
                c = d
       /\ accounts'[TheAccount].balance =
             accounts'[TheAccount].opening
               + signedSum(transactions', DOMAIN transactions', TheAccount)]_vars

\* C25 witness: two calls found the same transaction of the account before
\* either deleted it; one committed, the other failed at its delete
SecondDeleteFailed ==
    \E c, d \in CallIds :
        /\ c # d /\ calls[c].id = calls[d].id
        /\ calls[c].res = "ok" /\ calls[d].res = "throw"
        /\ calls[d].account = TheAccount /\ calls[d].change # 0
        /\ calls[c].id \notin DOMAIN transactions

\* C26: a pass materializes and advances exactly the definitions that are
\* the caller's, active and due when it runs; every other definition stays
\* as it is and yields no transaction; a materialized transaction carries
\* the owner, account, amount, type and category of its definition
OnlyDueOfCallerProcessed ==
    [][(ProcessStep /\ last'.res = "ok") =>
          LET isDue(r) == /\ recurring[r].user_id = last'.user
                          /\ recurring[r].is_active
                          /\ recurring[r].next_run_date <= now
              made(r) == {t \in DOMAIN transactions' \ DOMAIN transactions :
                             transactions'[t].src = r}
          IN  /\ DOMAIN recurring' = DOMAIN recurring
              /\ \A r \in DOMAIN recurring :
                    IF isDue(r)
                    THEN /\ Cardinality(made(r)) = 1
                         /\ recurring'[r].last_run_date = recurring[r].next_run_date
                         /\ recurring'[r].next_run_date # recurring[r].next_run_date
                         /\ \A t \in made(r) :
                               /\ transactions'[t].user_id = recurring[r].user_id
                               /\ transactions'[t].account_id = recurring[r].account_id
                               /\ transactions'[t].amount = recurring[r].amount
                               /\ transactions'[t].type = recurring[r].type
                               /\ transactions'[t].category = recurring[r].category
                    ELSE made(r) = {} /\ recurring'[r] = recurring[r]
              /\ \A t \in DOMAIN transactions' \ DOMAIN transactions :
                    transactions'[t].src \in DOMAIN recurring]_vars

\* C26 witness: a pass has materialized a definition of the caller and left
\* alone a due definition of another owner
ForeignDueLeftAlone ==
    /\ last.op = "processRecurringTransactions" /\ last.res = "ok" /\ last.processed = 1
    /\ \E r, q \in DOMAIN recurring :
          /\ recurring[r].user_id = last.user /\ recurring[r].last_run_date # NULL
          /\ \E t \in DOMAIN transactions :
                transactions[t].src = r /\ transactions[t].category = recurring[r].category
          /\ recurring[q].user_id # last.user /\ recurring[q].is_active
          /\ recurring[q].next_run_date <= now /\ recurring[q].last_run_date = NULL

\* C27: a pass persists, for each definition, the transaction and the
\* schedule update together or neither; the units committed before a
\* failure stay committed
UnitsAreAtomic ==
    [][ProcessStep =>
          /\ \A r \in DOMAIN recurring :
                IF r \in DOMAIN recurring' /\ recurring'[r] # recurring[r]
                THEN Cardinality(madeFor(r)) = 1
                ELSE madeFor(r) = {}
          /\ \A t \in newTransactions : transactions'[t].src \in DOMAIN recurring
          /\ Cardinality(newTransactions) = last'.processed]_vars

\* C27 witness: a pass failed on its second definition; the first is
\* materialized and advanced, the second has neither
FailedAfterOneUnit ==
    /\ last.op = "processRecurringTransactions" /\ last.res = "throw"
    /\ last.processed = 1
    /\ \E r, q \in DOMAIN recurring :
          /\ recurring[r].last_run_date # NULL
          /\ \E t \in DOMAIN transactions : transactions[t].src = r
          /\ recurring[q].user_id = last.user /\ recurring[q].is_active
          /\ recurring[q].next_run_date <= now /\ recurring[q].last_run_date = NULL
          /\ \A t \in DOMAIN transactions : transactions[t].src # q

\* C28: no transaction a pass materializes is dated after the end_date its
\* definition has when the pass runs
NoneDatedAfterEnd ==
    [][ProcessStep =>
          \A r \in DOMAIN recurring : \A t \in madeFor(r) :
              recurring[r].end_date = NULL \/ transactions'[t].date <= recurring[r].end_date]_vars

\* no definition is due
NothingDue ==
    \A r \in DOMAIN recurring :
        ~(recurring[r].is_active /\ recurring[r].next_run_date <= now)

\* C29: a pass materializes one occurrence per due definition and moves its
\* next_run_date strictly forward; with the clock standing still and no
\* other operation, repeated passes reach a state where nothing is due
PassesCatchUp ==
    /\ [][(ProcessStep /\ last'.res = "ok") =>
             \A r \in DOMAIN recurring :
                 IF /\ recurring[r].user_id = last'.user /\ recurring[r].is_active
                    /\ recurring[r].next_run_date <= now
                 THEN /\ Cardinality(madeFor(r)) = 1
                      /\ recurring'[r].next_run_date > recurring[r].next_run_date
                 ELSE madeFor(r) = {}]_vars
    /\ <>[]NothingDue

\* C29 witness: a definition that was MaxOverdue periods behind has been
\* materialized once per period, and the pass now returns processed 0
CaughtUp ==
    /\ NothingDue
    /\ last.op = "processRecurringTransactions" /\ last.res = "ok" /\ last.processed = 0
    /\ \E r \in DOMAIN recurring :
          /\ recurring[r].is_active
          /\ Cardinality({t \in DOMAIN transactions : transactions[t].src = r})
                = MaxOverdue + 1

\* C30: the first checkRateLimit of a window sets count 1 and resetAt =
\* now + windowMs; later calls of the window keep resetAt; at most limit
\* calls of a window succeed, every later one fails with retryAfterMs =
\* resetAt - now until resetAt has passed or resetRateLimit was called; the
\* entries of other identifiers are not touched
AtMostLimitPerWindow ==
    [][\A i \in Identifiers :
          /\ (last'.op = "checkRateLimit" /\ last'.id = i /\ attempts' # attempts) =>
                LET inWindow == i \in DOMAIN attempts /\ attempts[i].resetAt >= now
                    limit == calls[i].limit
                IN  /\ IF ~inWindow
                       THEN /\ returned'.success
                            /\ attempts'[i].count = 1
                            /\ attempts'[i].resetAt = now + calls[i].windowMs
                       ELSE /\ attempts'[i].resetAt = attempts[i].resetAt
                            /\ attempts'[i].count = attempts[i].count + 1
                            /\ returned'.success <=> attempts[i].count < limit
                            /\ ~returned'.success =>
                                  returned'.retryAfterMs = attempts[i].resetAt - now
                    /\ attempts'[i].succeeded <= limit
                    /\ \A j \in Identifiers \ {i} :
                          /\ j \in DOMAIN attempts' =>
                                j \in DOMAIN attempts /\ attempts'[j] = attempts[j]
                          /\ j \in DOMAIN attempts \ DOMAIN attempts' =>
                                attempts[j].resetAt < now
          /\ (last'.op = "resetRateLimit" /\ last'.id = i /\ attempts' # attempts) =>
                attempts' = [j \in DOMAIN attempts \ {i} |-> attempts[j]]]_vars

\* C30 witness: an identifier has used up its limit and its next call of the
\* window was refused, while another identifier is in a window of its own
RefusedAfterLimit ==
    /\ last.op = "checkRateLimit" /\ last.res = "error"
    /\ returned.retryAfterMs > 0
    /\ attempts[last.id].succeeded = calls[last.id].limit
    /\ attempts[last.id].count = calls[last.id].limit + 1
    /\ \E j \in DOMAIN attempts \ {last.id} :
          attempts[j].count = 1 /\ attempts[j].resetAt # attempts[last.id].resetAt

=============================================================================
